---- MODULE Spec2Model ----
(***************************************************************************)
(* Model of shell.c (the cross-platform mini shell, lines 129-353):        *)
(* read_line, split_line, launch and the loop of main, together with the   *)
(* processes the shell creates.  Every process (the shell is process 0, a  *)
(* forked child is a copy of it) is a record of the C variables it owns;   *)
(* the operating system is the table of those records plus the terminal.   *)
(***************************************************************************)
EXTENDS Integers, Sequences, FiniteSets, TLC

(* ------------------------------ bounds -------------------------------- *)
\* Number of process-table slots besides the shell; fork fails when full.
MaxChildren == 2
\* Longest line buffer the tokenizer is checked on, all contents enumerated.
MaxLineLen == 4
\* Largest number of tokens on a line given to split_line on its own.
MaxTokens == 130

(* ------------------------- program constants -------------------------- *)
BUFSIZE == 1024
TOK_BUFSIZE == 64
EXIT_SUCCESS == 0
EXIT_FAILURE == 1

(* --------------------------- characters ------------------------------- *)
\* A C string is the sequence of its characters before the terminator.
\* NUL is the terminator byte strtok writes into the buffer.
NUL == "NUL"
SP == " "
TAB == "\t"
CR == "\r"
NL == "\n"
\* Variant of TOK_DELIM without the carriage return.
TOK_DELIM_NoCR == {SP, TAB, NL}
TOK_DELIM == {SP, TAB, CR, NL}

\* C pointers to strings: either null or the string pointed to.
NullPtr == [null |-> TRUE, str |-> <<>>]
Ptr(s) == [null |-> FALSE, str |-> s]

W_exit == <<"e", "x", "i", "t">>
W_echo == <<"e", "c", "h", "o">>
W_cd == <<"c", "d">>
W_ls == <<"l", "s">>
W_no == <<"n", "o">>
W_a == <<"a">>
W_b == <<"b">>
D_root == <<"/">>
D_home == <<"/", "h">>
D_missing == <<"/", "x">>
PROMPT == <<"s", "h", "e", "l", "l", ">", " ">>

\* The directories of the file system that can be entered, and the programs
\* execvp / cmd.exe can find.
Dirs == {D_root, D_home}
Programs == {W_ls}

Spaces(n) == [i \in 1 .. n |-> SP]

\* What the user may type at a prompt: full lines, ended by a newline.
LongLine == Spaces(BUFSIZE - 3) \o W_exit \o <<NL>>
TypedLines ==
  { W_exit \o <<NL>>,
    <<SP>> \o W_exit \o <<SP>> \o W_a \o <<NL>>,
    W_echo \o <<NL>>,
    W_echo \o <<SP>> \o W_a \o <<SP, TAB>> \o W_b \o <<SP, NL>>,
    W_cd \o <<NL>>,
    W_cd \o <<SP>> \o D_home \o <<NL>>,
    W_cd \o <<SP>> \o D_missing \o <<SP>> \o D_home \o <<NL>>,
    W_ls \o <<SP>> \o W_a \o <<CR, NL>>,
    W_no \o <<NL>>,
    <<NL>>,
    <<SP, TAB, NL>>,
    LongLine }
\* Input that ends without a newline: the stream ends right after it.
TypedTails == { W_ls, W_exit }

(* ------------------------------ state --------------------------------- *)
VARIABLES
  platform,      \* "unix" (#else branch) or "win32" (#ifdef _WIN32 branch)
  lineBuffered,  \* stdout is a terminal (line buffered) or not (fully buffered)
  home,          \* getenv("HOME"): a pointer, null when the variable is unset
  stdin,         \* characters typed and not yet read
  stdinEOF,      \* the input stream has ended after the pending characters
  out,           \* characters written to file descriptor 1 since the last prompt
  err,           \* diagnostics written to standard error since the last prompt
  procs          \* process table: pid -> the process's variables

vars == <<platform, lineBuffered, home, stdin, stdinEOF, out, err, procs>>

Pids == 0 .. MaxChildren
Children == 1 .. MaxChildren
Shell == 0

\* A free slot of the process table / the shell process at program start.
\* lineLive and tokensLive tell whether the block that line and tokens point
\* to is allocated (malloc'ed and not yet freed).
NoProc ==
  [ pc |-> "none", image |-> "none", parent |-> 0,
    line |-> <<>>, tokens |-> <<>>, status |-> 1, pid |-> 0,
    argv |-> <<>>, cwd |-> D_root, outbuf |-> <<>>,
    exitCode |-> 0, termBy |-> "none",
    lineLive |-> FALSE, tokensLive |-> FALSE ]

(* --------------------------- small helpers ---------------------------- *)
Range(s) == { s[i] : i \in 1 .. Len(s) }
Min(a, b) == IF a < b THEN a ELSE b

\* The byte at index i of a buffer holding a C string: past the end is the
\* terminator.
At(buf, i) == IF i > Len(buf) THEN NUL ELSE buf[i]

(* ------------------------------ strtok -------------------------------- *)
\* strspn: first index at or after i whose byte is not a delimiter.
SkipDelims(buf, i) ==
  CHOOSE j \in i .. Len(buf) + 1 :
    /\ At(buf, j) \notin TOK_DELIM
    /\ \A k \in i .. j - 1 : At(buf, k) \in TOK_DELIM

\* strcspn: first index at or after i whose byte is a delimiter or the
\* terminator.
ScanToken(buf, i) ==
  CHOOSE j \in i .. Len(buf) + 1 :
    /\ At(buf, j) \in TOK_DELIM \cup {NUL}
    /\ \A k \in i .. j - 1 : At(buf, k) \notin TOK_DELIM \cup {NUL}

\* strtok(line, TOK_DELIM) / strtok(NULL, TOK_DELIM), scanning from the saved
\* position: the token's start index (0 is NULL), the buffer with the
\* delimiter after the token overwritten by NUL, and the new saved position.
Strtok(buf, save) ==
  LET s == SkipDelims(buf, save)
      e == ScanToken(buf, s)
  IN  IF At(buf, s) = NUL
        THEN [tok |-> 0, buf |-> buf, save |-> s]
        ELSE IF At(buf, e) = NUL
          THEN [tok |-> s, buf |-> buf, save |-> e]
          ELSE [tok |-> s, buf |-> [buf EXCEPT ![e] = NUL], save |-> e + 1]

\* The C string a token pointer points to: the bytes up to the next NUL.
ScanNul(buf, i) ==
  CHOOSE j \in i .. Len(buf) + 1 :
    At(buf, j) = NUL /\ \A k \in i .. j - 1 : At(buf, k) # NUL
TokStr(buf, s) == SubSeq(buf, s, ScanNul(buf, s) - 1)

(* ---------------------------- split_line ------------------------------ *)
\* Variant of NeedsGrow that lets the array fill one entry past its
\* capacity before growing it.
NeedsGrow_Late(pos, bufsize) == pos > bufsize

\* if (pos >= bufsize): the array is grown by TOK_BUFSIZE entries.
NeedsGrow(pos, bufsize) == pos >= bufsize

\* The while loop of split_line.  st: buf (the line), save (strtok's static
\* position), tok (the current token, 0 is NULL), tokens (the entries
\* stored so far, so pos = Len(tokens)), bufsize (the array's capacity),
\* stores (for each write tokens[pos] = ..., the index and the capacity of
\* the array at that write).
RECURSIVE SplitLoop(_)
SplitLoop(st) ==
  IF st.tok = 0
    THEN st
    ELSE LET stored == Append(st.tokens, st.tok)
             pos == Len(stored)
             grown == IF NeedsGrow(pos, st.bufsize)
                        THEN st.bufsize + TOK_BUFSIZE
                        ELSE st.bufsize
             nxt == Strtok(st.buf, st.save)
         IN  SplitLoop([buf |-> nxt.buf, save |-> nxt.save, tok |-> nxt.tok,
                        tokens |-> stored, bufsize |-> grown,
                        stores |-> Append(st.stores,
                                          [pos |-> Len(st.tokens),
                                           cap |-> st.bufsize])])

\* split_line(line): the line buffer as strtok leaves it, the token array,
\* ended by the NULL marker (0), the final capacity and the writes made.
SplitLine(line) ==
  LET first == Strtok(line, 1)
      fin == SplitLoop([buf |-> first.buf, save |-> first.save,
                        tok |-> first.tok, tokens |-> <<>>,
                        bufsize |-> TOK_BUFSIZE, stores |-> <<>>])
  IN  [line |-> fin.buf, tokens |-> Append(fin.tokens, 0),
       bufsize |-> fin.bufsize,
       stores |-> Append(fin.stores, [pos |-> Len(fin.tokens),
                                      cap |-> fin.bufsize])]

\* args[i] of launch (i counted from 0, as in C): a pointer to a string.
Arg(p, i) ==
  IF p.tokens[i + 1] = 0 THEN NullPtr ELSE Ptr(TokStr(p.line, p.tokens[i + 1]))

\* The strings of a NULL-terminated token array, in order.
RECURSIVE ArgsFrom(_, _)
ArgsFrom(p, i) ==
  IF p.tokens[i + 1] = 0 THEN <<>>
  ELSE <<TokStr(p.line, p.tokens[i + 1])>> \o ArgsFrom(p, i + 1)
Args(p) == ArgsFrom(p, 0)

(* ------------------------------- stdio -------------------------------- *)
\* printf(s) on a stdout whose buffer holds buf: what stays buffered and
\* what is written to the file descriptor.
Flushes(s) == lineBuffered /\ NL \in Range(s)
BufAfterPrintf(buf, s) == IF Flushes(s) THEN <<>> ELSE buf \o s
WrittenByPrintf(buf, s) == IF Flushes(s) THEN buf \o s ELSE <<>>

\* exit(code): flush stdout and end the process.
Exited(p, code) ==
  [p EXCEPT !.pc = "terminated", !.exitCode = code, !.termBy = "exit",
            !.outbuf = <<>>]

\* Killed by a signal (a fault): nothing is flushed.
Crashed(p) == [p EXCEPT !.pc = "terminated", !.termBy = "signal"]

Report(self, text) == Append(err, [pid |-> self, msg |-> text])

(* ------------------------------- Init --------------------------------- *)
Init ==
  /\ platform \in {"unix", "win32"}
  /\ lineBuffered \in BOOLEAN
  /\ home \in {NullPtr, Ptr(D_home), Ptr(D_missing)}
  /\ stdin = <<>>
  /\ stdinEOF = FALSE
  /\ out = <<>>
  /\ err = <<>>
  /\ procs = [p \in Pids |->
                IF p = Shell
                  THEN [NoProc EXCEPT !.pc = "prompt", !.image = "shell"]
                  ELSE NoProc]

(* ---------------------------- the terminal ---------------------------- *)
\* The user types a line while a process is blocked in fgets.
UserTypes ==
  /\ stdin = <<>> /\ ~stdinEOF
  /\ \E p \in Pids : procs[p].pc = "read"
  /\ \E l \in TypedLines : stdin' = l
  /\ UNCHANGED <<platform, lineBuffered, home, stdinEOF, out, err, procs>>

\* The user ends the input (Ctrl+D / Ctrl+Z), possibly after an unfinished
\* line.
UserEndsInput ==
  /\ stdin = <<>> /\ ~stdinEOF
  /\ \E p \in Pids : procs[p].pc = "read"
  /\ \E l \in TypedTails \cup {<<>>} : stdin' = l
  /\ stdinEOF' = TRUE
  /\ UNCHANGED <<platform, lineBuffered, home, out, err, procs>>

(* ------------------------------- main --------------------------------- *)
\* Variant of Prompt without the fflush call: the prompt stays in the stdio
\* buffer behind whatever was there.
Prompt_NoFlush(self) ==
  /\ procs[self].pc = "prompt"
  /\ out' = <<>>
  /\ err' = <<>>
  /\ procs' = [procs EXCEPT ![self].pc = "read",
                            ![self].outbuf = @ \o PROMPT]
  /\ UNCHANGED <<platform, lineBuffered, home, stdin, stdinEOF>>

\* printf("shell> "); fflush(stdout);  -- out and err restart at the prompt.
Prompt(self) ==
  /\ procs[self].pc = "prompt"
  /\ out' = procs[self].outbuf \o PROMPT
  /\ err' = <<>>
  /\ procs' = [procs EXCEPT ![self].pc = "read", ![self].outbuf = <<>>]
  /\ UNCHANGED <<platform, lineBuffered, home, stdin, stdinEOF>>

\* Number of characters fgets(line, BUFSIZE, stdin) takes from s: through
\* the first newline, at most BUFSIZE - 1.
FgetsLen(s) ==
  CHOOSE n \in 1 .. Min(BUFSIZE - 1, Len(s)) :
    /\ s[n] = NL \/ n = Min(BUFSIZE - 1, Len(s))
    /\ \A k \in 1 .. n - 1 : s[k] # NL

\* Variant of ReadLine that treats end of input like a read error: no
\* newline is printed and the exit status is EXIT_FAILURE.
ReadLine_EofIsFailure(self) ==
  /\ procs[self].pc = "read"
  /\ stdin # <<>> \/ stdinEOF
  /\ IF stdin = <<>>
       THEN /\ out' = out \o procs[self].outbuf
            /\ procs' = [procs EXCEPT
                 ![self] = Exited([@ EXCEPT !.lineLive = TRUE], EXIT_FAILURE)]
            /\ UNCHANGED stdin
       ELSE /\ procs' = [procs EXCEPT
                 ![self].line = SubSeq(stdin, 1, FgetsLen(stdin)),
                 ![self].lineLive = TRUE,
                 ![self].pc = "split"]
            /\ stdin' = SubSeq(stdin, FgetsLen(stdin) + 1, Len(stdin))
            /\ UNCHANGED out
  /\ UNCHANGED <<platform, lineBuffered, home, stdinEOF, err>>

\* read_line(): the buffer is allocated, then fgets returns a line, or NULL
\* at end of input, in which case the process prints a newline and exits
\* with EXIT_SUCCESS (the buffer is not freed).
ReadLine(self) ==
  /\ procs[self].pc = "read"
  /\ stdin # <<>> \/ stdinEOF
  /\ IF stdin = <<>>
       THEN /\ out' = out \o procs[self].outbuf \o <<NL>>
            /\ procs' = [procs EXCEPT
                 ![self] = Exited([@ EXCEPT !.lineLive = TRUE], EXIT_SUCCESS)]
            /\ UNCHANGED stdin
       ELSE /\ procs' = [procs EXCEPT
                 ![self].line = SubSeq(stdin, 1, FgetsLen(stdin)),
                 ![self].lineLive = TRUE,
                 ![self].pc = "split"]
            /\ stdin' = SubSeq(stdin, FgetsLen(stdin) + 1, Len(stdin))
            /\ UNCHANGED out
  /\ UNCHANGED <<platform, lineBuffered, home, stdinEOF, err>>

\* read_line(): malloc returns NULL.
ReadLineAllocFails(self) ==
  /\ procs[self].pc = "read"
  /\ err' = Report(self, "shell: error de asignacion de memoria")
  /\ out' = out \o procs[self].outbuf
  /\ procs' = [procs EXCEPT ![self] = Exited(@, EXIT_FAILURE)]
  /\ UNCHANGED <<platform, lineBuffered, home, stdin, stdinEOF>>

\* read_line(): fgets returns NULL on a read error (feof is false).
ReadLineError(self) ==
  /\ procs[self].pc = "read"
  /\ err' = Report(self, "fgets: read error")
  /\ out' = out \o procs[self].outbuf
  /\ procs' = [procs EXCEPT
       ![self] = Exited([@ EXCEPT !.lineLive = TRUE], EXIT_FAILURE)]
  /\ UNCHANGED <<platform, lineBuffered, home, stdin, stdinEOF>>

\* tokens = split_line(line);
Split(self) ==
  /\ procs[self].pc = "split"
  /\ procs' = [procs EXCEPT
       ![self].line = SplitLine(procs[self].line).line,
       ![self].tokens = SplitLine(procs[self].line).tokens,
       ![self].tokensLive = TRUE,
       ![self].pc = "launch"]
  /\ UNCHANGED <<platform, lineBuffered, home, stdin, stdinEOF, out, err>>

\* split_line(): malloc or realloc returns NULL.
SplitAllocFails(self) ==
  /\ procs[self].pc = "split"
  /\ err' = Report(self, "shell: error de asignacion de memoria")
  /\ out' = out \o procs[self].outbuf
  /\ procs' = [procs EXCEPT ![self] = Exited(@, EXIT_FAILURE)]
  /\ UNCHANGED <<platform, lineBuffered, home, stdin, stdinEOF>>

\* Variant of Free without free(line): only the token array is released.
Free_KeepsLine(self) ==
  /\ procs[self].pc = "free"
  /\ IF procs[self].status # 0
       THEN /\ procs' = [procs EXCEPT ![self].tokens = <<>>,
                                      ![self].tokensLive = FALSE,
                                      ![self].pid = 0,
                                      ![self].pc = "prompt"]
            /\ UNCHANGED out
       ELSE /\ procs' = [procs EXCEPT
                 ![self] = Exited([@ EXCEPT !.tokens = <<>>,
                                             !.tokensLive = FALSE,
                                             !.pid = 0],
                                  EXIT_SUCCESS)]
            /\ out' = out \o procs[self].outbuf
  /\ UNCHANGED <<platform, lineBuffered, home, stdin, stdinEOF, err>>

\* free(tokens); free(line); } while (status); return EXIT_SUCCESS;
Free(self) ==
  /\ procs[self].pc = "free"
  /\ IF procs[self].status # 0
       THEN /\ procs' = [procs EXCEPT ![self].tokens = <<>>,
                                      ![self].tokensLive = FALSE,
                                      ![self].line = <<>>,
                                      ![self].lineLive = FALSE,
                                      ![self].pid = 0,
                                      ![self].pc = "prompt"]
            /\ UNCHANGED out
       ELSE /\ procs' = [procs EXCEPT
                 ![self] = Exited([@ EXCEPT !.tokens = <<>>,
                                             !.tokensLive = FALSE,
                                             !.line = <<>>,
                                             !.lineLive = FALSE,
                                             !.pid = 0],
                                  EXIT_SUCCESS)]
            /\ out' = out \o procs[self].outbuf
  /\ UNCHANGED <<platform, lineBuffered, home, stdin, stdinEOF, err>>

(* ------------------------------ launch -------------------------------- *)
\* Variant of IsBuiltin that does not know cd: launch goes on to the
\* external-command branch with it.
IsBuiltin_NoCd(word) == word \in {W_exit, W_echo}

AtLaunch(self) == procs[self].pc = "launch"
IsBuiltin(word) == word \in {W_exit, W_echo, W_cd}
\* launch reaches the external-command branch.
IsExternal(p) == ~Arg(p, 0).null /\ ~IsBuiltin(Arg(p, 0).str)

\* Variant of LaunchEmpty that returns 0 (stop) for an empty token list.
LaunchEmpty_Stops(self) ==
  /\ AtLaunch(self)
  /\ Arg(procs[self], 0).null
  /\ procs' = [procs EXCEPT ![self].status = 0, ![self].pc = "free"]
  /\ UNCHANGED <<platform, lineBuffered, home, stdin, stdinEOF, out, err>>

\* if (!args[0]) return 1;
LaunchEmpty(self) ==
  /\ AtLaunch(self)
  /\ Arg(procs[self], 0).null
  /\ procs' = [procs EXCEPT ![self].status = 1, ![self].pc = "free"]
  /\ UNCHANGED <<platform, lineBuffered, home, stdin, stdinEOF, out, err>>

\* Variant of LaunchExit that returns 1 (continue) instead of 0.
LaunchExit_Continues(self) ==
  /\ AtLaunch(self)
  /\ Arg(procs[self], 0) = Ptr(W_exit)
  /\ procs' = [procs EXCEPT ![self].status = 1, ![self].pc = "free"]
  /\ UNCHANGED <<platform, lineBuffered, home, stdin, stdinEOF, out, err>>

\* if (strcmp(args[0], "exit") == 0) return 0;
LaunchExit(self) ==
  /\ AtLaunch(self)
  /\ Arg(procs[self], 0) = Ptr(W_exit)
  /\ procs' = [procs EXCEPT ![self].status = 0, ![self].pc = "free"]
  /\ UNCHANGED <<platform, lineBuffered, home, stdin, stdinEOF, out, err>>

\* for (i = 1; args[i]; i++) printf("%s%s", args[i], args[i + 1] ? " " : "");
\* Variant of EchoText that writes a space after every argument, the last
\* one included.
RECURSIVE EchoText_TrailingSpace(_, _)
EchoText_TrailingSpace(p, i) ==
  IF Arg(p, i).null THEN <<>>
  ELSE Arg(p, i).str \o <<SP>> \o EchoText_TrailingSpace(p, i + 1)

RECURSIVE EchoText(_, _)
EchoText(p, i) ==
  IF Arg(p, i).null THEN <<>>
  ELSE Arg(p, i).str \o (IF Arg(p, i + 1).null THEN <<>> ELSE <<SP>>)
         \o EchoText(p, i + 1)

\* echo: the loop of printf calls, then printf("\n"); return 1;
LaunchEcho(self) ==
  /\ AtLaunch(self)
  /\ Arg(procs[self], 0) = Ptr(W_echo)
  /\ LET text == EchoText(procs[self], 1)
         b0 == procs[self].outbuf
         b1 == BufAfterPrintf(b0, text)
     IN  /\ out' = out \o WrittenByPrintf(b0, text) \o WrittenByPrintf(b1, <<NL>>)
         /\ procs' = [procs EXCEPT ![self].outbuf = BufAfterPrintf(b1, <<NL>>),
                                   ![self].status = 1,
                                   ![self].pc = "free"]
  /\ UNCHANGED <<platform, lineBuffered, home, stdin, stdinEOF, err>>

\* Variant of CdTarget without the default: dir = args[1].
CdTarget_NoDefault(p) == Arg(p, 1)

\* char *dir = args[1] ? args[1] : getenv("HOME");
CdTarget(p) == IF ~Arg(p, 1).null THEN Arg(p, 1) ELSE home

\* chdir(dir) / _chdir(dir): 0 and the directory is entered, or -1; a null
\* dir is outside the call's contract: it fails or faults.
ChdirOutcomes(dir) ==
  IF dir.null THEN {"error", "fault"}
  ELSE IF dir.str \in Dirs THEN {"ok"} ELSE {"error"}

\* Variant of LaunchCd that records the target as the current directory
\* whether or not chdir succeeded.
LaunchCd_KeepsTarget(self) ==
  /\ AtLaunch(self)
  /\ Arg(procs[self], 0) = Ptr(W_cd)
  /\ \E res \in ChdirOutcomes(CdTarget(procs[self])) :
       CASE res = "ok" ->
              /\ procs' = [procs EXCEPT
                   ![self].cwd = CdTarget(procs[self]).str,
                   ![self].status = 1, ![self].pc = "free"]
              /\ UNCHANGED err
         [] res = "error" ->
              /\ procs' = [procs EXCEPT
                   ![self].cwd = CdTarget(procs[self]).str,
                   ![self].status = 1, ![self].pc = "free"]
              /\ err' = Report(self, "shell: chdir failed")
         [] res = "fault" ->
              /\ procs' = [procs EXCEPT ![self] = Crashed(@)]
              /\ UNCHANGED err
  /\ UNCHANGED <<platform, lineBuffered, home, stdin, stdinEOF, out>>

\* cd: chdir to the target, perror("shell") when it fails; return 1;
LaunchCd(self) ==
  /\ AtLaunch(self)
  /\ Arg(procs[self], 0) = Ptr(W_cd)
  /\ \E res \in ChdirOutcomes(CdTarget(procs[self])) :
       CASE res = "ok" ->
              /\ procs' = [procs EXCEPT
                   ![self].cwd = CdTarget(procs[self]).str,
                   ![self].status = 1, ![self].pc = "free"]
              /\ UNCHANGED err
         [] res = "error" ->
              /\ procs' = [procs EXCEPT ![self].status = 1, ![self].pc = "free"]
              /\ err' = Report(self, "shell: chdir failed")
         [] res = "fault" ->
              /\ procs' = [procs EXCEPT ![self] = Crashed(@)]
              /\ UNCHANGED err
  /\ UNCHANGED <<platform, lineBuffered, home, stdin, stdinEOF, out>>

\* The lowest free slot of the process table, 0 when the table is full.
FreeSlots == { c \in Children : procs[c].pc = "none" }
NewPid == IF FreeSlots = {} THEN 0 ELSE CHOOSE c \in FreeSlots : \A d \in FreeSlots : c <= d

\* Unix: pid = fork() succeeds.  The child is a copy of the caller that sees
\* fork return 0; the parent goes on to waitpid.
LaunchFork(self) ==
  /\ AtLaunch(self)
  /\ platform = "unix"
  /\ IsExternal(procs[self])
  /\ NewPid # 0
  /\ procs' = [procs EXCEPT
       ![NewPid] = [procs[self] EXCEPT !.pc = "exec", !.pid = 0,
                                       !.parent = self],
       ![self].pid = NewPid,
       ![self].pc = "wait"]
  /\ UNCHANGED <<platform, lineBuffered, home, stdin, stdinEOF, out, err>>

\* Variant of LaunchForkFails that treats the failure as fatal:
\* perror("shell"); exit(EXIT_FAILURE);
LaunchForkFails_Fatal(self) ==
  /\ AtLaunch(self)
  /\ platform = "unix"
  /\ IsExternal(procs[self])
  /\ err' = Report(self, "shell: fork failed")
  /\ out' = out \o procs[self].outbuf
  /\ procs' = [procs EXCEPT ![self] = Exited([@ EXCEPT !.pid = -1],
                                               EXIT_FAILURE)]
  /\ UNCHANGED <<platform, lineBuffered, home, stdin, stdinEOF>>

\* Unix: fork() returns -1: perror("shell"); return 1;
LaunchForkFails(self) ==
  /\ AtLaunch(self)
  /\ platform = "unix"
  /\ IsExternal(procs[self])
  /\ err' = Report(self, "shell: fork failed")
  /\ procs' = [procs EXCEPT ![self].pid = -1, ![self].status = 1,
                            ![self].pc = "free"]
  /\ UNCHANGED <<platform, lineBuffered, home, stdin, stdinEOF, out>>

\* Unix child: execvp(args[0], args) replaces the program image.
ChildExec(self) ==
  /\ procs[self].pc = "exec"
  /\ Arg(procs[self], 0).str \in Programs
  /\ procs' = [procs EXCEPT
       ![self] = [NoProc EXCEPT !.pc = "running", !.image = "prog",
                                !.parent = procs[self].parent,
                                !.argv = Args(procs[self]),
                                !.cwd = procs[self].cwd]]
  /\ UNCHANGED <<platform, lineBuffered, home, stdin, stdinEOF, out, err>>

\* Variant of ChildExecFails without the exit call: after perror the child
\* falls out of the if and returns 1 from launch, into the loop of main.
ChildExecFails_NoExit(self) ==
  /\ procs[self].pc = "exec"
  /\ Arg(procs[self], 0).str \notin Programs
  /\ err' = Report(self, "shell: execvp failed")
  /\ procs' = [procs EXCEPT ![self].status = 1, ![self].pc = "free"]
  /\ UNCHANGED <<platform, lineBuffered, home, stdin, stdinEOF, out>>

\* Variant of ChildExecFails without the perror call.
ChildExecFails_Silent(self) ==
  /\ procs[self].pc = "exec"
  /\ Arg(procs[self], 0).str \notin Programs
  /\ out' = out \o procs[self].outbuf
  /\ procs' = [procs EXCEPT ![self] = Exited(@, EXIT_FAILURE)]
  /\ UNCHANGED <<platform, lineBuffered, home, stdin, stdinEOF, err>>

\* Unix child: execvp returns -1: perror("shell"); exit(EXIT_FAILURE);
ChildExecFails(self) ==
  /\ procs[self].pc = "exec"
  /\ Arg(procs[self], 0).str \notin Programs
  /\ err' = Report(self, "shell: execvp failed")
  /\ out' = out \o procs[self].outbuf
  /\ procs' = [procs EXCEPT ![self] = Exited(@, EXIT_FAILURE)]
  /\ UNCHANGED <<platform, lineBuffered, home, stdin, stdinEOF>>

\* Unix parent: waitpid(pid, &status, WUNTRACED) returns when the child has
\* terminated (and reaps it) or when it is stopped (and leaves it).
WaitPid(self) ==
  /\ procs[self].pc = "wait"
  /\ procs[procs[self].pid].pc \in {"terminated", "stopped"}
  /\ procs' = [procs EXCEPT
       ![procs[self].pid] =
          IF @.pc = "terminated" THEN NoProc ELSE @,
       ![self].status = 1,
       ![self].pc = "free"]
  /\ UNCHANGED <<platform, lineBuffered, home, stdin, stdinEOF, out, err>>

(* ----------------------- launch, Windows branch ----------------------- *)
W_cmdexe == <<"c", "m", "d", ".", "e", "x", "e">>
W_slashC == <<"/", "C">>

\* Windows: cmd_args = ["cmd.exe", "/C", args..., NULL]; _spawnvp(_P_WAIT,
\* "cmd.exe", cmd_args) starts cmd.exe and blocks until it has ended.
LaunchSpawn(self) ==
  /\ AtLaunch(self)
  /\ platform = "win32"
  /\ IsExternal(procs[self])
  /\ NewPid # 0
  /\ procs' = [procs EXCEPT
       ![NewPid] = [NoProc EXCEPT !.pc = "cmd", !.image = "cmd",
                                  !.parent = self,
                                  !.argv = <<W_cmdexe, W_slashC>>
                                             \o Args(procs[self]),
                                  !.cwd = procs[self].cwd],
       ![self].pid = NewPid,
       ![self].pc = "spawn_wait"]
  /\ UNCHANGED <<platform, lineBuffered, home, stdin, stdinEOF, out, err>>

\* Windows: _spawnvp returns -1: perror("shell"); free(cmd_args); return 1;
LaunchSpawnFails(self) ==
  /\ AtLaunch(self)
  /\ platform = "win32"
  /\ IsExternal(procs[self])
  /\ err' = Report(self, "shell: _spawnvp failed")
  /\ procs' = [procs EXCEPT ![self].pid = -1, ![self].status = 1,
                            ![self].pc = "free"]
  /\ UNCHANGED <<platform, lineBuffered, home, stdin, stdinEOF, out>>

\* Windows: malloc of cmd_args returns NULL and cmd_args[0] is written
\* through it unchecked: the process faults.
LaunchSpawnAllocFails(self) ==
  /\ AtLaunch(self)
  /\ platform = "win32"
  /\ IsExternal(procs[self])
  /\ procs' = [procs EXCEPT ![self] = Crashed(@)]
  /\ UNCHANGED <<platform, lineBuffered, home, stdin, stdinEOF, out, err>>

\* Windows: _spawnvp(_P_WAIT, ...) returns once cmd.exe has ended;
\* free(cmd_args); return 1;
SpawnReturns(self) ==
  /\ procs[self].pc = "spawn_wait"
  /\ procs[procs[self].pid].pc = "terminated"
  /\ procs' = [procs EXCEPT ![procs[self].pid] = NoProc,
                            ![self].status = 1,
                            ![self].pc = "free"]
  /\ UNCHANGED <<platform, lineBuffered, home, stdin, stdinEOF, out, err>>

\* cmd.exe /C command: the command is found and runs.
CmdRuns(self) ==
  /\ procs[self].pc = "cmd"
  /\ procs[self].argv[3] \in Programs
  /\ procs' = [procs EXCEPT ![self].pc = "running"]
  /\ UNCHANGED <<platform, lineBuffered, home, stdin, stdinEOF, out, err>>

\* cmd.exe /C command: the command is not found; cmd.exe says so and ends
\* with status 1.
CmdNotFound(self) ==
  /\ procs[self].pc = "cmd"
  /\ procs[self].argv[3] \notin Programs
  /\ err' = Report(self, "cmd.exe: command not recognized")
  /\ procs' = [procs EXCEPT ![self] = Exited(@, 1)]
  /\ UNCHANGED <<platform, lineBuffered, home, stdin, stdinEOF, out>>

(* ------------------------ external programs --------------------------- *)
\* A running external program ends by itself.
ProgExits(self) ==
  /\ procs[self].pc = "running"
  /\ \E code \in {EXIT_SUCCESS, EXIT_FAILURE} :
       procs' = [procs EXCEPT ![self] = Exited(@, code)]
  /\ UNCHANGED <<platform, lineBuffered, home, stdin, stdinEOF, out, err>>

\* A running or stopped external program is terminated by a signal.
ProgKilled(self) ==
  /\ procs[self].pc \in {"running", "stopped"}
  /\ procs' = [procs EXCEPT ![self] = Crashed(@)]
  /\ UNCHANGED <<platform, lineBuffered, home, stdin, stdinEOF, out, err>>

\* Unix job control: a running external program is stopped (SIGTSTP,
\* SIGSTOP).  The shell has no way to continue it; it stays stopped until
\* it is killed.
ProgStops(self) ==
  /\ platform = "unix"
  /\ procs[self].pc = "running"
  /\ procs' = [procs EXCEPT ![self].pc = "stopped"]
  /\ UNCHANGED <<platform, lineBuffered, home, stdin, stdinEOF, out, err>>

(* --------------------------- specification ---------------------------- *)
Next ==
  \/ UserTypes
  \/ UserEndsInput
  \/ \E self \in Pids :
       \/ Prompt(self)
       \/ ReadLine(self)
       \/ ReadLineAllocFails(self)
       \/ ReadLineError(self)
       \/ Split(self)
       \/ SplitAllocFails(self)
       \/ LaunchEmpty(self)
       \/ LaunchExit(self)
       \/ LaunchEcho(self)
       \/ LaunchCd(self)
       \/ LaunchFork(self)
       \/ LaunchForkFails(self)
       \/ ChildExec(self)
       \/ ChildExecFails(self)
       \/ WaitPid(self)
       \/ LaunchSpawn(self)
       \/ LaunchSpawnFails(self)
       \/ LaunchSpawnAllocFails(self)
       \/ SpawnReturns(self)
       \/ CmdRuns(self)
       \/ CmdNotFound(self)
       \/ ProgExits(self)
       \/ ProgKilled(self)
       \/ ProgStops(self)
       \/ Free(self)

Spec == Init /\ [][Next]_vars

(* ------------------ split_line on every short line -------------------- *)
\* split_line applied to every line buffer of at most MaxLineLen characters
\* over the four delimiters and two other characters.
Alphabet == {SP, TAB, CR, NL, "a", "b"}
AllLines == UNION { [1 .. n -> Alphabet] : n \in 0 .. MaxLineLen }

InitSplit ==
  /\ platform = "unix"
  /\ lineBuffered = FALSE
  /\ home = NullPtr
  /\ stdin = <<>>
  /\ stdinEOF = FALSE
  /\ out = PROMPT
  /\ err = <<>>
  /\ \E l \in AllLines :
       procs = [p \in Pids |->
                  IF p = Shell
                    THEN [NoProc EXCEPT !.pc = "split", !.image = "shell",
                                        !.line = l, !.lineLive = TRUE]
                    ELSE NoProc]

NextSplit == Split(Shell)

SpecSplit == InitSplit /\ [][NextSplit]_vars

(* ------------- split_line, then launch on an empty list --------------- *)
\* status = launch(split_line(line)) for every short line that yields no
\* token.
NextSplitLaunch == Split(Shell) \/ LaunchEmpty(Shell)

SpecSplitLaunch == InitSplit /\ [][NextSplitLaunch]_vars

(* ----------------- split_line on lines of many tokens ----------------- *)
\* A line of n one-letter tokens ("a b a b ... \n"): short enough for the
\* line buffer, long enough to fill the token array and make it grow.
ManyTokens(n) ==
  [i \in 1 .. 2 * n |->
     IF i % 2 = 0 THEN SP ELSE IF i % 4 = 1 THEN "a" ELSE "b"] \o <<NL>>

InitGrow ==
  /\ platform = "unix"
  /\ lineBuffered = FALSE
  /\ home = NullPtr
  /\ stdin = <<>>
  /\ stdinEOF = FALSE
  /\ out = PROMPT
  /\ err = <<>>
  /\ \E n \in 0 .. MaxTokens :
       procs = [p \in Pids |->
                  IF p = Shell
                    THEN [NoProc EXCEPT !.pc = "split", !.image = "shell",
                                        !.line = ManyTokens(n),
                                        !.lineLive = TRUE]
                    ELSE NoProc]

NextGrow == Split(Shell)

SpecGrow == InitGrow /\ [][NextGrow]_vars

(* ------------------ launch on one line, each spelling ----------------- *)
\* One iteration of the loop from split_line to the return of launch, on
\* lines whose first word is a built-in name, a differently cased or longer
\* or shorter spelling of one, or another word.
W_Exit == <<"E", "x", "i", "t">>
W_ECHO == <<"E", "C", "H", "O">>
W_cdx == <<"c", "d", "x">>
W_exi == <<"e", "x", "i">>
DispatchLines ==
  { W_exit \o <<NL>>,
    W_echo \o <<SP>> \o W_a \o <<NL>>,
    W_cd \o <<SP>> \o D_home \o <<NL>>,
    W_Exit \o <<NL>>,
    W_ECHO \o <<SP>> \o W_a \o <<NL>>,
    W_cdx \o <<SP>> \o D_home \o <<NL>>,
    W_exi \o <<SP>> \o W_exit \o <<NL>>,
    W_ls \o <<SP>> \o W_cd \o <<NL>>,
    <<NL>> }

InitDispatch ==
  /\ platform \in {"unix", "win32"}
  /\ lineBuffered \in BOOLEAN
  /\ home \in {NullPtr, Ptr(D_home), Ptr(D_missing)}
  /\ stdin = <<>>
  /\ stdinEOF = FALSE
  /\ out = PROMPT
  /\ err = <<>>
  /\ \E l \in DispatchLines :
       procs = [p \in Pids |->
                  IF p = Shell
                    THEN [NoProc EXCEPT !.pc = "split", !.image = "shell",
                                        !.line = l, !.lineLive = TRUE]
                    ELSE NoProc]

NextDispatch ==
  \E self \in Pids :
    \/ Split(self)
    \/ LaunchEmpty(self)
    \/ LaunchExit(self)
    \/ LaunchEcho(self)
    \/ LaunchCd(self)
    \/ LaunchFork(self)
    \/ LaunchForkFails(self)
    \/ ChildExec(self)
    \/ ChildExecFails(self)
    \/ WaitPid(self)
    \/ LaunchSpawn(self)
    \/ LaunchSpawnFails(self)
    \/ LaunchSpawnAllocFails(self)
    \/ SpawnReturns(self)
    \/ CmdRuns(self)
    \/ CmdNotFound(self)
    \/ ProgExits(self)
    \/ ProgKilled(self)
    \/ ProgStops(self)

SpecDispatch == InitDispatch /\ [][NextDispatch]_vars

(* ====================================================================== *)
(*                              Properties                                *)
(* ====================================================================== *)
sh == procs[Shell]
ShellSteps == procs'[Shell] # procs[Shell]
Alive(c) == procs[c].pc \in {"exec", "cmd", "running", "stopped"}
Reported(who, text) ==
  \E i \in 1 .. Len(err) : err[i] = [pid |-> who, msg |-> text]

\* C1: on the Unix path, once launch has forked a child, control is back in
\* the loop of main (launch has returned, the buffers are about to be freed)
\* only when that child has exited or been killed: never while it is alive,
\* in particular never while it is merely stopped.
C1_NoReturnBeforeChildEnds ==
  (platform = "unix" /\ sh.pc = "free" /\ sh.pid > 0) => ~Alive(sh.pid)

\* C2: at most one child of the shell is alive or un-reaped at any time, and
\* no child exists while the shell is between iterations (printing the
\* prompt, reading, tokenizing, or about to dispatch the next command).
C2_AtMostOneChild ==
  /\ Cardinality({ c \in Children : procs[c].pc # "none" }) <= 1
  /\ sh.pc \in {"prompt", "read", "split", "launch"}
       => \A c \in Children : procs[c].pc = "none"

\* C3: a forked child that has not replaced its image (execvp failed or is
\* yet to be called) is either about to call execvp or has terminated; when
\* terminated it has reported the error, ended through exit with
\* EXIT_FAILURE, and still holds its line and token buffers un-freed.  It is
\* never at the free, prompt or read steps of main.
C3_ExecFailureEndsChild ==
  \A c \in Children :
    procs[c].image = "shell" =>
      /\ procs[c].pc \in {"exec", "terminated"}
      /\ procs[c].pc = "terminated" =>
           /\ procs[c].termBy = "exit"
           /\ procs[c].exitCode = EXIT_FAILURE
           /\ Reported(c, "shell: execvp failed")
           /\ procs[c].tokens # <<>> /\ procs[c].line # <<>>

\* A child whose execvp failed has terminated and is not yet reaped.
C3_Witness ==
  \E c \in Children :
    /\ procs[c].image = "shell" /\ procs[c].pc = "terminated"
    /\ Args(procs[c]) = <<W_no>>

ChildrenUnchanged == \A c \in Children : procs'[c] = procs[c]
EndsWith(s, t) ==
  Len(s) >= Len(t) /\ SubSeq(s, Len(s) - Len(t) + 1, Len(s)) = t

\* C4: when launch is handed a token list whose first token is exit (with
\* or without further tokens) it returns 0 without creating a process,
\* writing or reading anything; the loop then ends in that iteration: the
\* buffers are freed and the shell exits with EXIT_SUCCESS, printing no
\* prompt and reading no line.
C4_ExitEndsShell ==
  [][ /\ (sh.pc = "launch" /\ Arg(sh, 0) = Ptr(W_exit) /\ ShellSteps) =>
           /\ procs'[Shell].pc = "free"
           /\ procs'[Shell].status = 0
           /\ ChildrenUnchanged
           /\ out' = out /\ err' = err /\ stdin' = stdin
      /\ (sh.pc = "free" /\ sh.status = 0 /\ ShellSteps) =>
           /\ Arg(sh, 0) = Ptr(W_exit)
           /\ procs'[Shell].pc = "terminated"
           /\ procs'[Shell].termBy = "exit"
           /\ procs'[Shell].exitCode = EXIT_SUCCESS
           /\ ChildrenUnchanged
           /\ out' = out \o sh.outbuf /\ stdin' = stdin
    ]_vars

\* The shell has exited with success although the input has not ended, after
\* at least one earlier command (a cd to the home directory).
C4_Witness ==
  /\ sh.pc = "terminated" /\ sh.termBy = "exit"
  /\ sh.exitCode = EXIT_SUCCESS
  /\ ~stdinEOF
  /\ sh.cwd = D_home

\* C5: when fgets meets the end of input with nothing read (and neither the
\* allocation nor the read failed, so nothing is reported), the shell writes
\* exactly one newline after the prompt and exits with EXIT_SUCCESS; it
\* tokenizes nothing, creates no process and prints no further prompt.
C5_EofEndsShell ==
  [][ (sh.pc = "read" /\ stdin = <<>> /\ stdinEOF /\ ShellSteps
       /\ err' = err) =>
        /\ procs'[Shell].pc = "terminated"
        /\ procs'[Shell].termBy = "exit"
        /\ procs'[Shell].exitCode = EXIT_SUCCESS
        /\ EndsWith(out, PROMPT) /\ sh.outbuf = <<>>
        /\ out' = out \o <<NL>>
        /\ procs'[Shell].tokens = sh.tokens /\ procs'[Shell].line = sh.line
        /\ ChildrenUnchanged
    ]_vars

\* The shell has ended on end of input at a later prompt (after a cd).
C5_Witness ==
  /\ sh.pc = "terminated" /\ sh.exitCode = EXIT_SUCCESS
  /\ stdinEOF /\ stdin = <<>>
  /\ out = PROMPT \o <<NL>>
  /\ sh.cwd = D_home

\* C6: after launch has run on a line whose first token is not a built-in
\* and names no program, an error has been reported (by the child whose
\* execvp failed, by cmd.exe, or by the shell when no process could be
\* created), launch has returned 1 in the shell, and the shell's next steps
\* are to free the buffers and print the prompt again.
UnknownCommandDone ==
  sh.pc = "free" /\ IsExternal(sh) /\ Arg(sh, 0).str \notin Programs
C6_UnknownCommandReported ==
  /\ [](UnknownCommandDone =>
          /\ sh.status = 1
          /\ IF sh.pid > 0
               THEN /\ procs[sh.pid].pc = "none"
                    /\ \/ Reported(sh.pid, "shell: execvp failed")
                       \/ Reported(sh.pid, "cmd.exe: command not recognized")
               ELSE \/ Reported(Shell, "shell: fork failed")
                    \/ Reported(Shell, "shell: _spawnvp failed"))
  /\ [][ /\ (UnknownCommandDone /\ ShellSteps) => procs'[Shell].pc = "prompt"
         /\ (sh.pc = "prompt" /\ ShellSteps) =>
              procs'[Shell].pc = "read" /\ EndsWith(out', PROMPT)
       ]_vars

\* launch has returned in the shell after the Unix child of the unknown
\* command "no" reported the failed execvp.
C6_Witness ==
  /\ platform = "unix"
  /\ sh.pc = "free" /\ Args(sh) = <<W_no>> /\ sh.pid > 0
  /\ Reported(sh.pid, "shell: execvp failed")

\* C7: when fork / _spawnvp returns -1, launch reports the error, creates
\* and waits for no child and returns 1; the loop then goes on to the next
\* prompt.
C7_CreationFailureContinues ==
  [][ /\ (sh.pc = "launch" /\ ShellSteps /\ procs'[Shell].pid = -1) =>
           /\ procs'[Shell].pc = "free"
           /\ procs'[Shell].status = 1
           /\ err' = Append(err,
                 [pid |-> Shell,
                  msg |-> IF platform = "unix" THEN "shell: fork failed"
                          ELSE "shell: _spawnvp failed"])
           /\ ChildrenUnchanged
      /\ (sh.pc = "free" /\ sh.pid = -1 /\ ShellSteps) =>
           procs'[Shell].pc = "prompt"
    ]_vars

\* launch has returned after a failed process creation.
C7_Witness ==
  sh.pc = "free" /\ sh.pid = -1 /\ sh.status = 1 /\ IsExternal(sh)

\* C8: a cd whose second token names a directory that cannot be entered
\* reports the error, leaves the current directory as it was and returns 1;
\* the current directory changes only by a cd whose target can be entered,
\* and the external command the shell is waiting for runs in the shell's
\* current directory -- so a command run after the failed cd runs in the
\* directory that was current before it.
C8_FailedCdKeepsCwd ==
  /\ [](\A c \in Children :
          (sh.pc \in {"wait", "spawn_wait"} /\ sh.pid = c) =>
             procs[c].cwd = sh.cwd)
  /\ [][ /\ (/\ sh.pc = "launch" /\ Arg(sh, 0) = Ptr(W_cd)
             /\ ~Arg(sh, 1).null /\ Arg(sh, 1).str \notin Dirs
             /\ ShellSteps) =>
              /\ procs'[Shell].cwd = sh.cwd
              /\ procs'[Shell].status = 1
              /\ procs'[Shell].pc = "free"
              /\ err' = Append(err, [pid |-> Shell,
                                     msg |-> "shell: chdir failed"])
         /\ procs'[Shell].cwd # sh.cwd =>
              /\ sh.pc = "launch" /\ Arg(sh, 0) = Ptr(W_cd)
              /\ LET t == IF ~Arg(sh, 1).null THEN Arg(sh, 1) ELSE home
                 IN  ~t.null /\ t.str \in Dirs /\ procs'[Shell].cwd = t.str
       ]_vars

\* A cd to the missing directory has failed while the current directory was
\* the home directory, and it still is.
C8_Witness ==
  /\ sh.pc = "free" /\ Arg(sh, 0) = Ptr(W_cd) /\ Arg(sh, 1) = Ptr(D_missing)
  /\ sh.cwd = D_home
  /\ Reported(Shell, "shell: chdir failed")

\* C9 (as claimed): after cd with no second token, HOME being set, the
\* current directory is the directory HOME names and launch returned 1.
C9_CdAloneGoesHome ==
  (sh.pc = "free" /\ Arg(sh, 0) = Ptr(W_cd) /\ Arg(sh, 1).null /\ ~home.null)
    => (sh.cwd = home.str /\ sh.status = 1)

\* C9 (amended): cd with no second token, HOME being set: when HOME names a
\* directory that can be entered, it becomes the current directory and
\* nothing is reported; otherwise the error is reported and the current
\* directory is unchanged; launch returns 1 in both cases.
C9_CdAloneGoesHomeIfEnterable ==
  [][ (/\ sh.pc = "launch" /\ Arg(sh, 0) = Ptr(W_cd) /\ Arg(sh, 1).null
       /\ ~home.null /\ ShellSteps) =>
        /\ procs'[Shell].pc = "free"
        /\ procs'[Shell].status = 1
        /\ IF home.str \in Dirs
             THEN procs'[Shell].cwd = home.str /\ err' = err
             ELSE /\ procs'[Shell].cwd = sh.cwd
                  /\ err' = Append(err, [pid |-> Shell,
                                         msg |-> "shell: chdir failed"])
    ]_vars

\* cd alone has moved the shell from the root to the home directory.
C9_Witness ==
  /\ sh.pc = "free" /\ Arg(sh, 0) = Ptr(W_cd) /\ Arg(sh, 1).null
  /\ home = Ptr(D_home) /\ sh.cwd = D_home /\ err = <<>>

\* The whitespace-delimited words of a line, defined without strtok: the
\* maximal runs of non-whitespace characters, by increasing start index.
Whitespace == {" ", "\t", "\r", "\n"}
WordStarts(l) ==
  { i \in 1 .. Len(l) : l[i] \notin Whitespace
                          /\ (i = 1 \/ l[i - 1] \in Whitespace) }
WordEnd(l, i) ==
  CHOOSE j \in i .. Len(l) :
    /\ \A k \in i .. j : l[k] \notin Whitespace
    /\ j = Len(l) \/ l[j + 1] \in Whitespace
NthStart(l, n) ==
  CHOOSE i \in WordStarts(l) :
    Cardinality({ j \in WordStarts(l) : j < i }) = n - 1
Words(l) ==
  [n \in 1 .. Cardinality(WordStarts(l)) |->
     SubSeq(l, NthStart(l, n), WordEnd(l, NthStart(l, n)))]

\* C10: the token list split_line returns for a line is exactly the words of
\* that line (maximal runs of characters other than space, tab, carriage
\* return and newline), in order and unchanged, followed by the end marker
\* and nothing else; every token is non-empty and holds no delimiter.
C10_TokensAreWords ==
  [][ (sh.pc = "split" /\ procs'[Shell].pc = "launch") =>
        LET p == procs'[Shell]
            n == Len(p.tokens)
        IN  /\ n >= 1 /\ p.tokens[n] = 0
            /\ \A i \in 1 .. n - 1 : p.tokens[i] # 0
            /\ Len(Args(p)) = n - 1
            /\ Args(p) = Words(sh.line)
            /\ \A i \in 1 .. Len(Args(p)) :
                 /\ Args(p)[i] # <<>>
                 /\ \A k \in 1 .. Len(Args(p)[i]) :
                      Args(p)[i][k] \notin Whitespace
    ]_vars

\* split_line has returned the two tokens of the line " a<TAB>b".
C10_Witness ==
  /\ sh.pc = "launch"
  /\ Args(sh) = <<W_a, W_b>>
  /\ sh.tokens = <<2, 4, 0>>
  /\ sh.line = <<SP, "a", NUL, "b">>

\* C11: for a line made only of delimiter characters (the bare newline
\* included) split_line returns a token list whose first element is the end
\* marker, and launch on that list does nothing but return 1: it writes
\* nothing to either stream, reads nothing, creates no process and leaves
\* the working directory and every other field of the shell as they were.
C11_BlankLineIsNoOp ==
  [][ /\ (sh.pc = "split" /\ Range(sh.line) \subseteq TOK_DELIM
          /\ ShellSteps /\ err' = err) =>
           /\ procs'[Shell].pc = "launch"
           /\ procs'[Shell].tokens = <<0>>
      /\ (sh.pc = "launch" /\ Range(sh.line) \subseteq TOK_DELIM
          /\ ShellSteps) =>
           /\ procs'[Shell] = [sh EXCEPT !.pc = "free", !.status = 1]
           /\ ChildrenUnchanged
           /\ out' = out /\ err' = err
           /\ stdin' = stdin /\ home' = home ]_vars

\* launch has returned 1 for a line of four delimiters.
C11_Witness ==
  /\ sh.pc = "free" /\ sh.status = 1
  /\ sh.line = <<SP, TAB, CR, NL>>
  /\ sh.tokens = <<0>>

\* C12: for a line of n tokens (n below, at and above TOK_BUFSIZE and its
\* multiples) split_line makes exactly n + 1 writes into the token array,
\* at indices 0, 1, ..., n in that order, each at an index strictly below
\* the capacity the array has at that write; the list it returns holds the
\* starts of the n words of the line in increasing order, each once, then
\* the end marker, and the strings read through it are the n words.
C12_GrowthKeepsEveryToken ==
  [][ (sh.pc = "split" /\ procs'[Shell].pc = "launch") =>
        LET r == SplitLine(sh.line)
            n == Cardinality(WordStarts(sh.line))
            toks == procs'[Shell].tokens
        IN  /\ Len(r.stores) = n + 1
            /\ \A i \in 1 .. n + 1 :
                 /\ r.stores[i].pos = i - 1
                 /\ r.stores[i].pos < r.stores[i].cap
            /\ Len(toks) = n + 1
            /\ toks[n + 1] = 0
            /\ \A i \in 1 .. n : toks[i] \in WordStarts(sh.line)
            /\ \A i \in 1 .. n - 1 : toks[i] < toks[i + 1]
            /\ Len(Args(procs'[Shell])) = n
            /\ \A i \in 1 .. n :
                 Args(procs'[Shell])[i] = <<sh.line[toks[i]]>> ]_vars

\* split_line has returned a list of exactly 2 * TOK_BUFSIZE tokens: the
\* array was grown twice and the end marker sits at index 2 * TOK_BUFSIZE.
C12_Witness ==
  /\ sh.pc = "launch"
  /\ Len(sh.tokens) = 2 * TOK_BUFSIZE + 1
  /\ sh.tokens[2 * TOK_BUFSIZE + 1] = 0
  /\ sh.tokens[TOK_BUFSIZE] # 0 /\ sh.tokens[TOK_BUFSIZE + 1] # 0

\* The strings of ws written one after another with one space between each
\* two neighbours.
RECURSIVE JoinSp(_)
JoinSp(ws) ==
  IF ws = <<>> THEN <<>>
  ELSE IF Len(ws) = 1 THEN ws[1]
  ELSE ws[1] \o <<SP>> \o JoinSp(Tail(ws))

\* What has been written to stdout since the last prompt, whether it has
\* reached the file descriptor or is still in the shell's stdio buffer.
StdoutStream == out \o sh.outbuf

\* C13: when the first token is echo, launch appends to standard output
\* exactly the remaining tokens in order with one space between each two,
\* no space before the first or after the last, then one newline (echo
\* alone: just the newline); it writes nothing to stderr, creates no
\* process, reads nothing and returns 1.
C13_EchoWritesArguments ==
  [][ (sh.pc = "launch" /\ Arg(sh, 0) = Ptr(W_echo) /\ ShellSteps) =>
        /\ StdoutStream' = StdoutStream \o JoinSp(Tail(Args(sh))) \o <<NL>>
        /\ lineBuffered => procs'[Shell].outbuf = <<>>
        /\ procs'[Shell].pc = "free"
        /\ procs'[Shell].status = 1
        /\ ChildrenUnchanged
        /\ err' = err /\ stdin' = stdin ]_vars

\* echo with two arguments, typed with several delimiters between and
\* after them, has written "a b" and a newline after the prompt.
C13_Witness ==
  /\ sh.pc = "free" /\ sh.status = 1
  /\ Args(sh) = <<W_echo, W_a, W_b>>
  /\ StdoutStream = PROMPT \o W_a \o <<SP>> \o W_b \o <<NL>>

\* The first token is, letter for letter, one of the three built-in names.
FirstIsBuiltinName ==
  /\ sh.tokens # <<>> /\ sh.tokens[1] # 0
  /\ \/ Args(sh)[1] = <<"e", "x", "i", "t">>
     \/ Args(sh)[1] = <<"e", "c", "h", "o">>
     \/ Args(sh)[1] = <<"c", "d">>
FirstIsOtherWord ==
  /\ sh.tokens # <<>> /\ sh.tokens[1] # 0
  /\ ~FirstIsBuiltinName

\* C14: launch treats the command as built-in exactly when the first token
\* is exit, echo or cd, compared case-sensitively and in full.  For those
\* it creates no process.  For every other non-empty token list (Exit,
\* ECHO, cdx, exi, ls) it goes to process creation: either a child is
\* created that holds the full token list (the fork copy on Unix, the
\* cmd.exe /C argument vector on Windows), or the creation failure is
\* reported and launch returns 1, or the allocation of the Windows
\* argument array fails; and whenever launch has returned for such a list,
\* whatever became of the child, it has returned 1.
C14_BuiltinsByExactName ==
  /\ [][ /\ (sh.pc = "launch" /\ FirstIsBuiltinName /\ ShellSteps) =>
              /\ ChildrenUnchanged
              /\ procs'[Shell].pid = 0
              /\ procs'[Shell].pc \in {"free", "terminated"}
         /\ (sh.pc = "launch" /\ FirstIsOtherWord /\ ShellSteps) =>
              \/ \E c \in Children :
                   /\ procs[c].pc = "none"
                   /\ procs'[c].parent = Shell
                   /\ procs'[Shell].pid = c
                   /\ \A d \in Children \ {c} : procs'[d] = procs[d]
                   /\ IF platform = "unix"
                        THEN /\ procs'[c].pc = "exec"
                             /\ Args(procs'[c]) = Args(sh)
                             /\ procs'[Shell].pc = "wait"
                        ELSE /\ procs'[c].pc = "cmd"
                             /\ procs'[c].argv =
                                  <<W_cmdexe, W_slashC>> \o Args(sh)
                             /\ procs'[Shell].pc = "spawn_wait"
              \/ /\ ChildrenUnchanged
                 /\ procs'[Shell].pid = -1
                 /\ Len(err') = Len(err) + 1
                 /\ procs'[Shell].pc = "free"
                 /\ procs'[Shell].status = 1
              \/ /\ platform = "win32"
                 /\ ChildrenUnchanged
                 /\ procs'[Shell].pc = "terminated"
                 /\ procs'[Shell].termBy = "signal" ]_vars
  /\ [](sh.pc = "free" /\ FirstIsOtherWord => sh.status = 1 /\ sh.pid # 0)
  /\ [](sh.pc = "free" /\ ~FirstIsOtherWord => sh.pid = 0)

\* launch has returned 1 for the line "Exit": a child was forked for it,
\* its execvp failed and the parent has reaped it.
C14_Witness ==
  /\ sh.pc = "free" /\ sh.status = 1 /\ sh.pid > 0
  /\ Args(sh) = <<W_Exit>>
  /\ Reported(sh.pid, "shell: execvp failed")

AllocMsg == "shell: error de asignacion de memoria"
\* The shell ends the way the allocation-failure policy prescribes: the
\* failure is reported on stderr and the process exits with EXIT_FAILURE.
EndsReportingAllocFailure ==
  /\ procs'[Shell].pc = "terminated"
  /\ procs'[Shell].termBy = "exit"
  /\ procs'[Shell].exitCode = EXIT_FAILURE
  /\ err' = Append(err, [pid |-> Shell, msg |-> AllocMsg])

\* C15: every step in which an allocation of the shell fails (the line
\* buffer in read_line, the token array in split_line, the argument array
\* of the Windows spawn in launch) reports the failure on stderr and ends
\* the shell through exit with EXIT_FAILURE; the shell never ends in one of
\* these functions by a fault on an unchecked allocation result.  The only
\* other ways the shell ends while reading are end of input (exit with
\* EXIT_SUCCESS) and the fgets read error.
C15_AllocFailureReportedAndFatal ==
  [][ (ShellSteps /\ procs'[Shell].pc = "terminated") =>
        /\ sh.pc = "split" => EndsReportingAllocFailure
        /\ (sh.pc = "launch" /\ IsExternal(sh)) => EndsReportingAllocFailure
        /\ sh.pc = "read" =>
             \/ EndsReportingAllocFailure
             \/ /\ procs'[Shell].termBy = "exit"
                /\ procs'[Shell].exitCode = EXIT_SUCCESS
                /\ err' = err
             \/ /\ procs'[Shell].termBy = "exit"
                /\ procs'[Shell].exitCode = EXIT_FAILURE
                /\ err' = Append(err, [pid |-> Shell,
                                       msg |-> "fgets: read error"]) ]_vars

\* The messages the shell's own code writes to stderr.
ShellMessages ==
  { AllocMsg, "fgets: read error", "shell: chdir failed",
    "shell: fork failed", "shell: execvp failed", "shell: _spawnvp failed" }

\* C16: on either platform, for a token list that is not a built-in: the
\* program launch has started and is waiting for is the command named by
\* the first token, its argument vector is exactly the token list; every
\* failure report on stderr is one written by the shell's code; and launch
\* has returned only when the program it started is no longer alive.
C16_LaunchersEquivalent ==
  /\ \A c \in Children :
       (procs[c].image \in {"prog", "cmd"} /\ sh.pid = c
        /\ sh.pc \in {"wait", "spawn_wait"}) =>
         /\ procs[c].argv = Args(sh)
         /\ procs[c].argv[1] = Arg(sh, 0).str
  /\ \A i \in 1 .. Len(err) : err[i].msg \in ShellMessages
  /\ (sh.pc = "free" /\ sh.pid > 0) => procs[sh.pid].pc \in {"none", "terminated"}

\* C17: the terminal delivers one line at a time, so when read_line has
\* returned, the whole typed line, through its newline (or through the end
\* of input for an unfinished last line), is in the line buffer and none of
\* it is left on stdin for the next iteration; and the tokens split_line
\* then hands to launch are the words of a complete line, never the two
\* halves of a word divided by the size of the buffer.
C17_OneLinePerIteration ==
  /\ sh.pc = "split" =>
       /\ stdin = <<>>
       /\ sh.line[Len(sh.line)] = NL \/ stdinEOF
  /\ sh.pc = "launch" =>
       \E l \in TypedLines \cup TypedTails : Args(sh) = Words(l)

\* C18: in the shell process, each iteration allocates one line buffer (in
\* read_line) and then one token array (in split_line); both are allocated
\* all the while launch runs or waits, so no token is read from a freed
\* line; both are released, each once, by the step that follows the return
\* of launch, which leads to the next prompt or to the normal return of
\* main; and neither is allocated when the next iteration starts.
C18_BuffersFreedOncePerIteration ==
  /\ [](sh.pc \in {"prompt", "read"} => ~sh.lineLive /\ ~sh.tokensLive)
  /\ [](sh.pc = "split" => sh.lineLive /\ ~sh.tokensLive)
  /\ [](sh.pc \in {"launch", "wait", "spawn_wait", "free"} =>
          sh.lineLive /\ sh.tokensLive)
  /\ [][ /\ (~sh.lineLive /\ procs'[Shell].lineLive) => sh.pc = "read"
         /\ (~sh.tokensLive /\ procs'[Shell].tokensLive) => sh.pc = "split"
         /\ (sh.pc = "free" /\ ShellSteps) =>
              /\ ~procs'[Shell].lineLive /\ ~procs'[Shell].tokensLive
              /\ procs'[Shell].pc \in {"prompt", "terminated"}
              /\ procs'[Shell].pc = "terminated" =>
                   /\ procs'[Shell].termBy = "exit"
                   /\ procs'[Shell].exitCode = EXIT_SUCCESS
         /\ (sh.lineLive /\ ~procs'[Shell].lineLive) => sh.pc = "free"
         /\ (sh.tokensLive /\ ~procs'[Shell].tokensLive) => sh.pc = "free"
       ]_vars

\* A later iteration: after cd /h has been carried out and its buffers
\* released, the shell holds a new line and a new token array for ls a.
C18_Witness ==
  /\ sh.pc = "launch" /\ sh.cwd = D_home
  /\ Args(sh) = <<W_ls, W_a>>
  /\ sh.lineLive /\ sh.tokensLive

\* C19: whenever launch carries out cd, the directory it hands to chdir is
\* a string and not the null pointer, also when there is no second token
\* and HOME is not set; so the call stays within its contract and launch
\* returns to main.
C19_ChdirTargetDefined ==
  [][ (sh.pc = "launch" /\ Arg(sh, 0) = Ptr(W_cd) /\ ShellSteps) =>
        /\ ~CdTarget(sh).null
        /\ procs'[Shell].pc = "free" ]_vars

\* C20: at every fork the stdout buffer of the shell is empty, so the copy
\* the child gets is empty too and stays so until execvp; a child whose
\* execvp fails and that leaves through exit therefore writes nothing to
\* standard output: no second copy of the prompt or of earlier echo output.
C20_NoBufferedOutputAtFork ==
  /\ [](\A c \in Children :
          (procs[c].image = "shell" /\ procs[c].pc = "exec") =>
            /\ procs[c].outbuf = <<>>
            /\ procs[procs[c].parent].outbuf = <<>>)
  /\ [][ /\ (sh.pc = "launch" /\ procs'[Shell].pc = "wait") =>
              sh.outbuf = <<>>
         /\ \A c \in Children :
              (procs[c].image = "shell" /\ procs[c].pc = "exec"
               /\ procs'[c].pc = "terminated") => out' = out ]_vars

\* On a fully buffered stdout, after an echo whose newline stayed in the
\* buffer until the next prompt flushed it, a child was forked and its
\* execvp failed: standard output holds that newline and the prompt once.
C20_Witness ==
  /\ ~lineBuffered
  /\ out = <<NL>> \o PROMPT
  /\ \E c \in Children :
       /\ procs[c].image = "shell" /\ procs[c].pc = "terminated"
       /\ Reported(c, "shell: execvp failed")

====
